---- MODULE Spec2Model ----
(***************************************************************************)
(* Passport-management backend: the MRZ extractor and date decoder of      *)
(* backend/ocr_service.py, the page orchestration of                       *)
(* extract_data_page_by_page, the background OCR task and in-memory job    *)
(* store of backend/main.py, and the persisted OCR-job operations of       *)
(* backend/crud.py.                                                        *)
(*                                                                         *)
(* Text is modelled by TLA+ strings (sequences of characters); Python's    *)
(* Optional[str] by the records None and Some(v).                          *)
(***************************************************************************)
EXTENDS Integers, Sequences, FiniteSets, TLC

VARIABLES
    \* --- _parse_passport_text, called on its own -------------------------
    line_to_extract,   \* the argument of _parse_passport_text
    now_year,          \* datetime.now().year at the time of the call
    parsed,            \* NotCalled, or the outcome of the call
    \* --- _parse_date_from_mrz, called on its own -------------------------
    date_arg,          \* the argument of _parse_date_from_mrz
    date_result,       \* NotCalled, or the outcome of the call
    \* --- _parse_mrz_from_response, called on its own ---------------------
    vision_response,   \* the argument response of _parse_mrz_from_response
    page_result,       \* NotCalled, or the page result returned
    \* --- extract_data_page_by_page ---------------------------------------
    doc,               \* the uploaded document and what the cloud returns for it
    ex_pc,             \* position in extract_data_page_by_page
    json_blobs,        \* the list json_blobs, once listed and sorted
    blob_i,            \* index (1-based) of the JSON blob being handled
    all_results,       \* the list all_results
    ex_raised,         \* an exception reached the outer except clause
    input_deleted,     \* number of deletions of the input object attempted
    input_stored,      \* the input object is in the input bucket
    \* --- run_ocr_extraction_task and OCR_JOBS ----------------------------
    job_dicts,         \* the job dicts created by the upload route, by job id
    OCR_JOBS,          \* the keys of OCR_JOBS (main.py:40); OCR_JOBS[j] is job_dicts[j]
    task,              \* job_id -> the state of that job's background task
    passports,         \* the passports table: sequence of rows
    users,             \* user id -> uploaded_pages_count
    \* --- crud.py OCR jobs (persisted) ------------------------------------
    ocr_jobs,          \* the ocr_jobs table: job_id -> row
    \* --- the routes of main.py that run in the thread pool, and crud.py ---
    tables,            \* the database: table name -> sequence of rows
    requests           \* request id -> the position and locals of its handler

parseVars == <<line_to_extract, now_year, parsed>>
dateVars  == <<date_arg, date_result>>
pageVars  == <<vision_response, page_result>>
docVars   == <<doc, ex_pc, json_blobs, blob_i, all_results, ex_raised, input_deleted,
               input_stored>>
taskVars  == <<job_dicts, OCR_JOBS, task, passports, users>>
jobVars   == <<ocr_jobs>>
crudVars  == <<tables, requests>>
vars      == <<line_to_extract, now_year, parsed, date_arg, date_result,
               vision_response, page_result,
               doc, ex_pc, json_blobs, blob_i, all_results, ex_raised, input_deleted,
               input_stored,
               job_dicts, OCR_JOBS, task, passports, users, ocr_jobs,
               tables, requests>>

----------------------------------------------------------------------------
(* Python values *)

None == [some |-> FALSE]
Some(v) == [some |-> TRUE, val |-> v]

\* The state of a call that has not been made.
NotCalled == [kind |-> "not_called"]

\* The years in which the calls are made
NowYears == {2024, 2026}

\* Each part of the system at rest, for the specifications of the others
IdleDoc ==
    /\ doc = [kind |-> "none"]
    /\ ex_pc = "idle"
    /\ json_blobs = <<>>
    /\ blob_i = 0
    /\ all_results = <<>>
    /\ ex_raised = FALSE
    /\ input_deleted = 0
    /\ input_stored = FALSE

IdleTask ==
    /\ job_dicts = <<>>
    /\ OCR_JOBS = {}
    /\ task = <<>>
    /\ passports = <<>>
    /\ users = <<>>

IdleJobs == ocr_jobs = <<>>

IdleCrud ==
    /\ tables = <<>>
    /\ requests = <<>>

IdleParse ==
    /\ line_to_extract = ""
    /\ now_year = 2024
    /\ parsed = NotCalled

IdleDate ==
    /\ date_arg = ""
    /\ date_result = NotCalled

IdlePage ==
    /\ vision_response = NotCalled
    /\ page_result = NotCalled

----------------------------------------------------------------------------
(* Python str operations, on TLA+ strings *)

Ch(s, i) == SubSeq(s, i, i)

DigitChars == "0123456789"
Digit == {Ch(DigitChars, i) : i \in 1..10}
UpperChars == "ABCDEFGHIJKLMNOPQRSTUVWXYZ"
Upper == {Ch(UpperChars, i) : i \in 1..26}
Whitespace == {" ", "\n", "\t"}

\* s.replace(old, new) for a one-character old
RECURSIVE StrReplace(_, _, _)
StrReplace(s, old, new) ==
    IF s = "" THEN ""
    ELSE (IF Ch(s, 1) = old THEN new ELSE Ch(s, 1)) \o StrReplace(Tail(s), old, new)

\* s.find(sub): 0-based index of the first occurrence, -1 when there is none
StrFind(s, sub) ==
    LET hits == {i \in 0..(Len(s) - Len(sub)) : SubSeq(s, i + 1, i + Len(sub)) = sub}
    IN  IF hits = {} THEN -1 ELSE CHOOSE i \in hits : \A j \in hits : i <= j

\* s.rstrip(c)
RECURSIVE StrRStrip(_, _)
StrRStrip(s, c) ==
    IF s # "" /\ Ch(s, Len(s)) = c THEN StrRStrip(SubSeq(s, 1, Len(s) - 1), c) ELSE s

\* s.strip(): whitespace removed at both ends
RECURSIVE StrStrip(_)
StrStrip(s) ==
    IF s = "" THEN ""
    ELSE IF Ch(s, 1) \in Whitespace THEN StrStrip(Tail(s))
    ELSE IF Ch(s, Len(s)) \in Whitespace THEN StrStrip(SubSeq(s, 1, Len(s) - 1))
    ELSE s

\* s.split(sep): the pieces between the non-overlapping occurrences of sep,
\* found left to right
RECURSIVE StrSplit(_, _)
StrSplit(s, sep) ==
    LET i == StrFind(s, sep)
    IN  IF i = -1 THEN <<s>>
        ELSE <<SubSeq(s, 1, i)>> \o StrSplit(SubSeq(s, i + Len(sep) + 1, Len(s)), sep)

\* sep.join(parts)
RECURSIVE StrJoin(_, _)
StrJoin(parts, sep) ==
    IF parts = <<>> THEN ""
    ELSE IF Len(parts) = 1 THEN parts[1]
    ELSE parts[1] \o sep \o StrJoin(Tail(parts), sep)

\* s.isdigit(), on the characters of the model's alphabet
StrIsDigit(s) == s # "" /\ \A i \in 1..Len(s) : Ch(s, i) \in Digit

DigitVal(c) == CHOOSE n \in 0..9 : Ch(DigitChars, n + 1) = c

\* int(s) for a string of decimal digits
RECURSIVE StrToInt(_)
StrToInt(s) ==
    IF s = "" THEN 0
    ELSE 10 * StrToInt(SubSeq(s, 1, Len(s) - 1)) + DigitVal(Ch(s, Len(s)))

\* '%02d' and '%04d' as strftime writes %m, %d and %Y
Fmt2(n) == Ch(DigitChars, (n \div 10) + 1) \o Ch(DigitChars, (n % 10) + 1)
Fmt4(n) == Fmt2(n \div 100) \o Fmt2(n % 100)

----------------------------------------------------------------------------
(* _parse_date_from_mrz *)

IsLeap(y) == (y % 4 = 0 /\ y % 100 # 0) \/ y % 400 = 0

DaysInMonth(y, m) ==
    IF m \in {1, 3, 5, 7, 8, 10, 12} THEN 31
    ELSE IF m \in {4, 6, 9, 11} THEN 30
    ELSE IF IsLeap(y) THEN 29 ELSE 28

\* datetime(y, m, d) raises ValueError unless this holds
ValidDate(y, m, d) == m \in 1..12 /\ d \in 1..DaysInMonth(y, m)

CenturyWindow == 15

\* The four-digit year of a two-digit one (ocr_service.py:53-57)
FullYear(year, now) ==
    IF year > (now % 100) + CenturyWindow THEN 1900 + year ELSE 2000 + year

\* The call _parse_date_from_mrz(date_str) when datetime.now().year = now:
\* None, or Some("YYYY-MM-DD")
_parse_date_from_mrz(date_str, now) ==
    LET ds == StrReplace(date_str, "<", "")
    IN  IF ds = "" \/ Len(ds) # 6 \/ ~StrIsDigit(ds) THEN None
        ELSE LET year  == StrToInt(SubSeq(ds, 1, 2))
                 month == StrToInt(SubSeq(ds, 3, 4))
                 day   == StrToInt(SubSeq(ds, 5, 6))
                 year_full == FullYear(year, now)
             IN  IF ValidDate(year_full, month, day)
                 THEN Some(Fmt4(year_full) \o "-" \o Fmt2(month) \o "-" \o Fmt2(day))
                 ELSE None

----------------------------------------------------------------------------
(* _parse_passport_text *)

\* s = line_to_extract.replace(' ', '').replace('«', '<')
Normalize(t) == StrReplace(StrReplace(t, " ", ""), "«", "<")

\* line2_pattern: eight groups, each a run of characters of one class, the
\* third the literal FRA.
GroupLen == <<9, 1, 3, 6, 1, 1, 6, 1>>

\* line2_pattern with group 3 written ([A-Z]{3}) instead of (FRA)
GroupClassAnyCode(g, j) ==
    CASE g = 1 -> Upper \cup Digit \cup {"<"}
      [] g = 3 -> Upper
      [] g = 6 -> {"M", "F", "<"}
      [] OTHER -> Digit \cup {"<"}

GroupClass(g, j) ==
    CASE g = 1 -> Upper \cup Digit \cup {"<"}
      [] g = 2 -> Digit \cup {"<"}
      [] g = 3 -> {Ch("FRA", j)}
      [] g = 4 -> Digit \cup {"<"}
      [] g = 5 -> Digit \cup {"<"}
      [] g = 6 -> {"M", "F", "<"}
      [] g = 7 -> Digit \cup {"<"}
      [] g = 8 -> Digit \cup {"<"}

RECURSIVE GroupOffset(_)
GroupOffset(g) == IF g = 1 THEN 0 ELSE GroupOffset(g - 1) + GroupLen[g - 1]

PatternLen == GroupOffset(8) + GroupLen[8]

\* the pattern matches s at 1-based position i
MatchAt(s, i) ==
    /\ i + PatternLen - 1 <= Len(s)
    /\ \A g \in 1..8 : \A j \in 1..GroupLen[g] :
           Ch(s, i + GroupOffset(g) + j - 1) \in GroupClass(g, j)

\* line2_pattern.search(s): the 1-based start of the leftmost match, 0 for None
PatternSearch(s) ==
    LET hits == {i \in 1..Len(s) : MatchAt(s, i)}
    IN  IF hits = {} THEN 0 ELSE CHOOSE i \in hits : \A j \in hits : i <= j

\* line2_match.group(g) of the match starting at i
MatchGroup(s, i, g) == SubSeq(s, i + GroupOffset(g), i + GroupOffset(g) + GroupLen[g] - 1)

Unresolvable == "---!!!---"

\* lines 93-98 with the replacement of line 95 applied to the whole number
PassportNumberEveryOne(passport_raw) ==
    IF Len(passport_raw) = 9
    THEN StrReplace(passport_raw, "1", "I")
    ELSE Unresolvable

\* lines 93-98
PassportNumber(passport_raw) ==
    IF Len(passport_raw) = 9
    THEN SubSeq(passport_raw, 1, 2)
            \o StrReplace(SubSeq(passport_raw, 3, 4), "1", "I")
            \o SubSeq(passport_raw, 5, 9)
    ELSE Unresolvable

\* lines 100-106 with the FRA looked for in the whole text, not only in
\* what precedes the match
NamePartWholeText(s, i) ==
    LET line1_part == s
        code_index == StrFind(line1_part, "FRA")
    IN  IF code_index # -1 THEN SubSeq(line1_part, code_index + 4, Len(line1_part)) ELSE ""

\* lines 100-106: the text after the first FRA of what precedes the match
NamePart(s, i) ==
    LET line1_part == SubSeq(s, 1, i - 1)
        code_index == StrFind(line1_part, "FRA")
    IN  IF code_index # -1 THEN SubSeq(line1_part, code_index + 4, Len(line1_part)) ELSE ""

\* lines 108-112: <<last_name, first_name>>
Names(name_part) ==
    IF name_part = "" THEN <<None, None>>
    ELSE LET name_parts == StrSplit(StrRStrip(name_part, "<"), "<<")
         IN  << Some(StrStrip(StrReplace(name_parts[1], "<", " "))),
                IF Len(name_parts) > 1
                THEN Some(StrStrip(StrReplace(StrJoin(Tail(name_parts), " "), "<", " ")))
                ELSE None >>

\* _parse_passport_text(t) when datetime.now().year = now: the dict it
\* returns (kind "data") or the ValueError it raises
_parse_passport_text(t, now) ==
    LET s == Normalize(t)
        i == PatternSearch(s)
    IN  IF i = 0
        THEN [kind |-> "ValueError",
              msg  |-> "Could not parse MRZ. Stable pattern (Passport/FRA/Dates) not found."]
        ELSE LET names == Names(NamePart(s, i))
             IN  [kind            |-> "data",
                  first_name      |-> names[2],
                  last_name       |-> names[1],
                  passport_number |-> Some(PassportNumber(StrReplace(MatchGroup(s, i, 1), "<", ""))),
                  birth_date      |-> _parse_date_from_mrz(MatchGroup(s, i, 4), now),
                  delivery_date   |-> None,
                  expiration_date |-> _parse_date_from_mrz(MatchGroup(s, i, 7), now),
                  nationality     |-> Some(MatchGroup(s, i, 3))]

----------------------------------------------------------------------------
(* _parse_mrz_from_response *)

\* lines 183-190, from character j (1-based) of line on: a space between two
\* upper-case letters becomes a filler, every other space is dropped
RECURSIVE MrzLineFrom(_, _)
MrzLineFrom(line, j) ==
    IF j > Len(line) THEN ""
    ELSE LET c == Ch(line, j)
         IN  (IF c = " " /\ j > 1 /\ j < Len(line)
                    /\ Ch(line, j - 1) \in Upper /\ Ch(line, j + 1) \in Upper
              THEN "<"
              ELSE IF c = " " THEN "" ELSE c)
                \o MrzLineFrom(line, j + 1)

\* lines 179-191 over the lines of the text: those holding a '<', stripped,
\* rewritten and concatenated
RECURSIVE ConcatMrzLines(_)
ConcatMrzLines(lines) ==
    IF lines = <<>> THEN ""
    ELSE (IF StrFind(lines[1], "<") # -1 THEN MrzLineFrom(StrStrip(lines[1]), 1) ELSE "")
            \o ConcatMrzLines(Tail(lines))

LineToExtract(full_text) == ConcatMrzLines(StrSplit(full_text, "\n"))

RECURSIVE SumSeq(_)
SumSeq(q) == IF q = <<>> THEN 0 ELSE q[1] + SumSeq(Tail(q))

\* lines 199-209: the mean of the symbol confidences (given in hundredths),
\* rounded to four decimals and written in ten-thousandths
ConfidenceScore(confidences) ==
    IF Len(confidences) = 0 THEN 0
    ELSE (2 * 100 * SumSeq(confidences) + Len(confidences)) \div (2 * Len(confidences))

PageError(page_num, message) == [page_number |-> page_num, error |-> message]

\* _parse_mrz_from_response(response, page_num): always a page result
_parse_mrz_from_response(response, page_num, now) ==
    IF response.error_message # ""
    THEN PageError(page_num, "Google Vision API Error: " \o response.error_message)
    ELSE IF response.full_text = ""
    THEN PageError(page_num, "No text detected on page.")
    ELSE LET line == LineToExtract(response.full_text)
         IN  IF line = ""
             THEN PageError(page_num, "No MRZ lines were found or concatenated.")
             ELSE LET parsed_data == _parse_passport_text(line, now)
                  IN  IF parsed_data.kind = "ValueError"
                      THEN PageError(page_num, parsed_data.msg)
                      ELSE [page_number |-> page_num,
                            data |-> ("confidence_score" :> ConfidenceScore(response.confidences))
                                        @@ parsed_data]

----------------------------------------------------------------------------
(* extract_data_page_by_page *)

MaxPages == 10

\* What can be wrong with one page of a document: the output file of the
\* page cannot be downloaded or decoded; the response carries an error; it
\* carries no text, no line with a filler, no anchor, no name block, a
\* passport number with a filler in it, or a name block that starts with
\* fillers.
BadKinds ==
    {"undecodable", "vision_error", "no_text", "no_mrz_lines", "no_anchor", "no_names",
     "short_number", "empty_last_name"}

GoodText ==
    "REPUBLIQUE FRANCAISE\nP<FRADUPONT<<JEAN PAUL<<<<<<<<<<\n12AB345674FRA9001011M3001017<<<<<<<<<<<<<<04"

BadText(kind) ==
    CASE kind = "no_text"      -> ""
      [] kind = "no_mrz_lines" -> "REPUBLIQUE FRANCAISE\nPASSEPORT"
      [] kind = "no_anchor"    -> "P<FRADUPONT<<JEAN<<<<\n12AB34567 4FRA"
      [] kind = "no_names"     -> "PASSEPORT\n12AB345674FRA9001011M3001017<<<<<<<<<<<<<<04"
      [] kind = "short_number" ->
            "P<FRAMARTIN<<ANNE<<<<\n12AB3456<4FRA8505052F3101015<<<<<<<<<<<<<<02"
      [] kind = "empty_last_name" ->
            "P<FRA<<JEAN<<<<\n12AB345674FRA8505052F3101015<<<<<<<<<<<<<<02"
      [] OTHER                 -> GoodText

\* An uploaded file and what the cloud services hold for it: its content
\* type, whether the module's clients were initialised, its number of pages,
\* the page that is damaged (0 for none) and how, and whether the responses
\* carry a page number in their context.
PdfDocs ==
    { [content_type |-> "application/pdf", clients_ok |-> TRUE, n_pages |-> n,
       bad_page |-> b, bad_kind |-> k, has_context |-> c] :
        n \in 0..MaxPages, b \in 0..MaxPages, k \in BadKinds, c \in BOOLEAN }

ImageDocs ==
    { [content_type |-> "image/png", clients_ok |-> TRUE, n_pages |-> 1,
       bad_page |-> b, bad_kind |-> k, has_context |-> FALSE] :
        b \in 0..1, k \in BadKinds \ {"undecodable"} }

OtherDocs ==
    { [content_type |-> "text/plain", clients_ok |-> ok, n_pages |-> 1,
       bad_page |-> 0, bad_kind |-> "no_text", has_context |-> FALSE] : ok \in BOOLEAN }

Docs ==
    { d \in PdfDocs \cup ImageDocs \cup OtherDocs :
        /\ d.bad_page <= d.n_pages
        /\ d.bad_page = 0 => d.bad_kind = "no_text" }

\* The response of the Vision API for page k of document d
Response(d, k) ==
    LET bad == d.bad_page = k
    IN  [page_number   |-> IF d.has_context THEN k ELSE 0,
         error_message |-> IF bad /\ d.bad_kind = "vision_error" THEN "Bad image data." ELSE "",
         full_text     |-> IF bad THEN BadText(d.bad_kind) ELSE GoodText,
         confidences   |-> <<99, 97, 98>>]

\* str(n) for a natural number
RECURSIVE Dec(_)
Dec(n) == IF n < 10 THEN Ch(DigitChars, n + 1) ELSE Dec(n \div 10) \o Ch(DigitChars, (n % 10) + 1)

\* The output files of the batch operation, one per page (batch_size=1),
\* named by the service after the pages they hold, under the output prefix.
OutputPrefix == "ocr_results/f1/"
BatchSize == 1
OutputName(k) == OutputPrefix \o "output-" \o Dec(k) \o "-to-" \o Dec(k) \o ".json"
ListBlobs(d) == [k \in 1..d.n_pages |-> [name |-> OutputName(k), page |-> k]]

\* The characters of blob names, in code-point order
CodePointOrder == "-./0123456789_abcdefghijklmnopqrstuvwxyz"
CharOrd(c) == CHOOSE i \in 1..Len(CodePointOrder) : Ch(CodePointOrder, i) = c

\* a < b for Python strings
RECURSIVE StrLess(_, _)
StrLess(a, b) ==
    IF b = "" THEN FALSE
    ELSE IF a = "" THEN TRUE
    ELSE IF Ch(a, 1) = Ch(b, 1) THEN StrLess(Tail(a), Tail(b))
    ELSE CharOrd(Ch(a, 1)) < CharOrd(Ch(b, 1))

StrEndsWith(s, suffix) ==
    Len(s) >= Len(suffix) /\ SubSeq(s, Len(s) - Len(suffix) + 1, Len(s)) = suffix

\* insertion of blob b into a list sorted by name, after the blobs that do
\* not compare greater (list.sort is stable)
RECURSIVE InsertByName(_, _)
InsertByName(sorted, b) ==
    IF sorted = <<>> THEN <<b>>
    ELSE IF StrLess(b.name, sorted[1].name) THEN <<b>> \o sorted
    ELSE <<sorted[1]>> \o InsertByName(Tail(sorted), b)

\* blobs.sort(key=lambda b: b.name)
RECURSIVE SortByName(_)
SortByName(blobs) ==
    IF blobs = <<>> THEN <<>>
    ELSE InsertByName(SortByName(SubSeq(blobs, 1, Len(blobs) - 1)), blobs[Len(blobs)])

\* lines 295-298
JsonBlobs(d) == SortByName(SelectSeq(ListBlobs(d), LAMBDA b : StrEndsWith(b.name, ".json")))

\* line 309: response_json['responses'] of the blob of page k
BlobResponses(d, k) == [i \in 1..BatchSize |-> Response(d, k + i - 1)]

\* lines 305-306, 312 raise for this blob
BlobUndecodable(d, k) == d.bad_page = k /\ d.bad_kind = "undecodable"

\* lines 309-319 for the responses of one blob, from the one of index
\* page_index (0-based) on
RECURSIVE PageResults(_, _, _)
PageResults(responses, page_index, now) ==
    IF page_index >= Len(responses) THEN <<>>
    ELSE LET page_response == responses[page_index + 1]
             page_num == IF page_response.page_number = 0
                         THEN page_index + 1
                         ELSE page_response.page_number
         IN  <<_parse_mrz_from_response(page_response, page_num, now)>>
                \o PageResults(responses, page_index + 1, now)

InitDoc ==
    /\ doc \in Docs
    /\ now_year \in NowYears
    /\ ex_pc = "start"
    /\ json_blobs = <<>>
    /\ blob_i = 0
    /\ all_results = <<>>
    /\ ex_raised = FALSE
    /\ input_deleted = 0
    /\ input_stored = FALSE
    /\ line_to_extract = ""
    /\ parsed = NotCalled
    /\ IdleDate /\ IdlePage /\ IdleTask /\ IdleJobs /\ IdleCrud

DocFrame == UNCHANGED <<doc, now_year, line_to_extract, parsed, dateVars, pageVars, taskVars, jobVars, crudVars>>

\* lines 222-231
ExStart ==
    /\ ex_pc = "start"
    /\ ex_pc' = IF doc.clients_ok THEN "upload" ELSE "raised"
    /\ UNCHANGED <<json_blobs, blob_i, all_results, ex_raised, input_deleted, input_stored>>
    /\ DocFrame

\* line 235 returns; then the branch on the content type (237, 324, 343)
ExUploaded ==
    /\ ex_pc = "upload"
    /\ ex_pc' = IF StrFind(doc.content_type, "pdf") # -1 THEN "batch"
                ELSE IF StrFind(doc.content_type, "image") # -1 THEN "annotate"
                ELSE "except"
    /\ input_stored' = TRUE
    /\ UNCHANGED <<json_blobs, blob_i, all_results, ex_raised, input_deleted>>
    /\ DocFrame

\* line 235 raises
ExUploadFails ==
    /\ ex_pc = "upload"
    /\ ex_pc' = "except"
    /\ UNCHANGED <<json_blobs, blob_i, all_results, ex_raised, input_deleted, input_stored>>
    /\ DocFrame

\* lines 239-301: the batch operation ends, its output files are listed
ExBatchDone ==
    /\ ex_pc = "batch"
    /\ json_blobs' = JsonBlobs(doc)
    /\ IF JsonBlobs(doc) = <<>>
       THEN ex_pc' = "except" /\ blob_i' = blob_i
       ELSE ex_pc' = "blob" /\ blob_i' = 1
    /\ UNCHANGED <<all_results, ex_raised, input_deleted, input_stored>>
    /\ DocFrame

\* lines 274-288 raise (the operation fails or times out)
ExBatchFails ==
    /\ ex_pc = "batch"
    /\ ex_pc' = "except"
    /\ UNCHANGED <<json_blobs, blob_i, all_results, ex_raised, input_deleted, input_stored>>
    /\ DocFrame

\* lines 303-319 for one blob
ExBlob ==
    /\ ex_pc = "blob"
    /\ LET blob == json_blobs[blob_i]
       IN  IF BlobUndecodable(doc, blob.page)
           THEN /\ ex_pc' = "except"
                /\ UNCHANGED <<blob_i, all_results>>
           ELSE /\ all_results' = all_results
                        \o PageResults(BlobResponses(doc, blob.page), 0, now_year)
                /\ IF blob_i = Len(json_blobs)
                   THEN ex_pc' = "cleanup_output" /\ blob_i' = blob_i
                   ELSE ex_pc' = "blob" /\ blob_i' = blob_i + 1
    /\ UNCHANGED <<json_blobs, ex_raised, input_deleted, input_stored>>
    /\ DocFrame

\* line 322: _delete_gcs_prefix, which swallows its own failures
ExCleanupOutput ==
    /\ ex_pc = "cleanup_output"
    /\ ex_pc' = "finally"
    /\ UNCHANGED <<json_blobs, blob_i, all_results, ex_raised, input_deleted, input_stored>>
    /\ DocFrame

\* lines 326-341
ExAnnotated ==
    /\ ex_pc = "annotate"
    /\ all_results' = Append(all_results, _parse_mrz_from_response(Response(doc, 1), 1, now_year))
    /\ ex_pc' = "finally"
    /\ UNCHANGED <<json_blobs, blob_i, ex_raised, input_deleted, input_stored>>
    /\ DocFrame

\* line 334 raises
ExAnnotateFails ==
    /\ ex_pc = "annotate"
    /\ ex_pc' = "except"
    /\ UNCHANGED <<json_blobs, blob_i, all_results, ex_raised, input_deleted, input_stored>>
    /\ DocFrame

\* lines 346-350
ExExcept ==
    /\ ex_pc = "except"
    /\ ex_raised' = TRUE
    /\ all_results' = IF all_results = <<>>
                      THEN <<PageError(1, "Failed to process file: error")>>
                      ELSE all_results
    /\ ex_pc' = "finally"
    /\ UNCHANGED <<json_blobs, blob_i, input_deleted, input_stored>>
    /\ DocFrame

\* lines 352-357 with the deletion left out after an exception
ExFinallyOnSuccessOnly ==
    /\ ex_pc = "finally"
    /\ IF ex_raised
       THEN UNCHANGED <<input_deleted, input_stored>>
       ELSE /\ input_deleted' = input_deleted + 1
            /\ input_stored' \in {FALSE, input_stored}
    /\ ex_pc' = "returned"
    /\ UNCHANGED <<json_blobs, blob_i, all_results, ex_raised>>
    /\ DocFrame

\* lines 352-357: _delete_gcs_blob (134-143) is called; the object is
\* deleted, or the deletion fails (always, when the upload had failed and
\* there is no object) and the failure is logged and swallowed
ExFinally ==
    /\ ex_pc = "finally"
    /\ input_deleted' = input_deleted + 1
    /\ input_stored' \in {FALSE, input_stored}
    /\ ex_pc' = "returned"
    /\ UNCHANGED <<json_blobs, blob_i, all_results, ex_raised>>
    /\ DocFrame

NextDoc ==
    \/ ExStart
    \/ ExUploaded
    \/ ExUploadFails
    \/ ExBatchDone
    \/ ExBatchFails
    \/ ExBlob
    \/ ExCleanupOutput
    \/ ExAnnotated
    \/ ExAnnotateFails
    \/ ExExcept
    \/ ExFinally

SpecDoc == InitDoc /\ [][NextDoc]_vars

----------------------------------------------------------------------------
(* extract_data_page_by_page as one call *)

\* lines 303-319 from blob i on: the results appended, and whether the loop
\* ended by an exception
RECURSIVE BlobsResults(_, _, _, _)
BlobsResults(d, blobs, i, now) ==
    IF i > Len(blobs) THEN [results |-> <<>>, raised |-> FALSE]
    ELSE IF BlobUndecodable(d, blobs[i].page) THEN [results |-> <<>>, raised |-> TRUE]
    ELSE LET rest == BlobsResults(d, blobs, i + 1, now)
         IN  [results |-> PageResults(BlobResponses(d, blobs[i].page), 0, now) \o rest.results,
              raised  |-> rest.raised]

\* What the cloud services may refuse during one call: nothing, the upload
\* (line 235), or the OCR request (lines 274-288, 334)
EnvFaults == {"none", "upload", "ocr"}

Raised == [results |-> <<>>, raised |-> TRUE]

\* extract_data_page_by_page(file_content, content_type) for document d:
\* the list returned, or raised when the HTTPException of line 223 leaves it
extract_data_page_by_page(d, now, fault) ==
    IF ~d.clients_ok THEN Raised
    ELSE LET body ==
                 IF fault = "upload" THEN Raised
                 ELSE IF StrFind(d.content_type, "pdf") # -1
                 THEN IF fault = "ocr" \/ JsonBlobs(d) = <<>> THEN Raised
                      ELSE BlobsResults(d, JsonBlobs(d), 1, now)
                 ELSE IF StrFind(d.content_type, "image") # -1
                 THEN IF fault = "ocr" THEN Raised
                      ELSE [results |-> <<_parse_mrz_from_response(Response(d, 1), 1, now)>>,
                            raised  |-> FALSE]
                 ELSE Raised
         IN  [results |-> IF body.raised /\ body.results = <<>>
                          THEN <<PageError(1, "Failed to process file: error")>>
                          ELSE body.results,
              raised  |-> FALSE]

----------------------------------------------------------------------------
(* run_ocr_extraction_task, OCR_JOBS and the routes that touch them *)

MaxJobs == 2
MaxUsers == 2
TaskMaxPages == 2
JobIds == 1..MaxJobs
UserIds == 1..MaxUsers
Destinations == {None, Some("ROME")}

\* The documents uploaded to the job route
TaskBadKinds == {"undecodable", "no_anchor", "no_names", "short_number", "empty_last_name"}
TaskDocs ==
    { d \in Docs : d.n_pages <= TaskMaxPages /\ (d.bad_page # 0 => d.bad_kind \in TaskBadKinds) }

\* Every outcome extract_data_page_by_page can have for these documents
ExtractionOutcomes ==
    [y \in NowYears |->
        {extract_data_page_by_page(d, y, fault) : d \in TaskDocs, fault \in EnvFaults}]

NoTask == [pc |-> "none"]

\* schemas.PassportCreate(**passport_data): the first field, in the order of
\* the schema, that fails validation, "" when the data validate
FirstInvalidField(passport_data) ==
    LET order == <<"first_name", "last_name", "birth_date", "expiration_date",
                   "nationality", "passport_number">>
        bad == {k \in 1..Len(order) : ~passport_data[order[k]].some}
    IN  IF bad = {} THEN "" ELSE order[CHOOSE k \in bad : \A m \in bad : k <= m]

\* crud.create_user_passport: the association looked for at lines 111-115
ExistingAssociation(rows, user_id, passport_number, destination) ==
    \E k \in 1..Len(rows) :
        /\ rows[k].owner_id = user_id
        /\ rows[k].passport_number = passport_number
        /\ destination.val \in rows[k].destinations

\* crud.create_user_passport: the row added at lines 123-142
NewPassport(rows, passport_data, destination, user_id) ==
    [id              |-> Len(rows) + 1,
     owner_id        |-> user_id,
     first_name      |-> passport_data.first_name.val,
     last_name       |-> passport_data.last_name.val,
     birth_date      |-> passport_data.birth_date.val,
     expiration_date |-> passport_data.expiration_date.val,
     delivery_date   |-> passport_data.delivery_date,
     nationality     |-> passport_data.nationality.val,
     passport_number |-> passport_data.passport_number.val,
     confidence_score |-> passport_data.confidence_score,
     destinations    |-> IF destination.some /\ destination.val # "" THEN {destination.val} ELSE {}]

\* main.py:81-120 for one result, a page whose data do not validate being
\* passed over without a failure entry
HandleResultSkippingInvalid(result, t, rows) ==
    IF "error" \in DOMAIN result
    THEN <<t.successes,
           Append(t.failures, [page_number |-> result.page_number, detail |-> result.error]),
           rows>>
    ELSE LET passport_data == result.data
             dest == IF t.destination.some /\ t.destination.val # "" THEN t.destination ELSE None
         IN  IF FirstInvalidField(passport_data) # ""
             THEN <<t.successes, t.failures, rows>>
             ELSE IF dest.some /\ ExistingAssociation(rows, t.user_id, passport_data.passport_number.val, dest)
             THEN <<t.successes,
                    Append(t.failures,
                           [page_number |-> result.page_number,
                            detail |-> "Le passeport est déjà enregistré pour la destination"]),
                    rows>>
             ELSE LET row == NewPassport(rows, passport_data, dest, t.user_id)
                  IN  <<Append(t.successes, [page_number |-> result.page_number, data |-> row]),
                        t.failures,
                        Append(rows, row)>>

\* main.py:81-120 for one result: <<successes, failures, passports>> after it
HandleResult(result, t, rows) ==
    IF "error" \in DOMAIN result
    THEN <<t.successes,
           Append(t.failures, [page_number |-> result.page_number, detail |-> result.error]),
           rows>>
    ELSE LET passport_data == result.data
             invalid == FirstInvalidField(passport_data)
             dest == IF t.destination.some /\ t.destination.val # "" THEN t.destination ELSE None
         IN  IF invalid # ""
             THEN <<t.successes,
                    Append(t.failures,
                           [page_number |-> result.page_number,
                            detail |-> "Validation Error on field '" \o invalid \o "'"]),
                    rows>>
             ELSE IF dest.some /\ ExistingAssociation(rows, t.user_id, passport_data.passport_number.val, dest)
             THEN <<t.successes,
                    Append(t.failures,
                           [page_number |-> result.page_number,
                            detail |-> "Le passeport est déjà enregistré pour la destination"]),
                    rows>>
             ELSE LET row == NewPassport(rows, passport_data, dest, t.user_id)
                  IN  <<Append(t.successes, [page_number |-> result.page_number, data |-> row]),
                        t.failures,
                        Append(rows, row)>>

\* main.py:142 writes this status whatever the page outcomes are
TaskFinalStatus(successes, failures) == "complete"

InitTask ==
    /\ job_dicts = [j \in JobIds |-> NoTask]
    /\ OCR_JOBS = {}
    /\ task = [j \in JobIds |-> NoTask]
    /\ passports = <<>>
    /\ users = [u \in UserIds |-> 0]
    /\ now_year = 2024
    /\ line_to_extract = ""
    /\ parsed = NotCalled
    /\ IdleDate /\ IdlePage /\ IdleDoc /\ IdleJobs /\ IdleCrud

\* The task is a coroutine of the event loop: from the return of its only
\* await (main.py:65) to its end (lines 77-150) it runs without any other
\* coroutine or route taking a step in between.
NoOtherRunning(j) == \A k \in JobIds \ {j} : task[k].pc \notin {"pages", "finish"}

TaskFrame == UNCHANGED <<now_year, line_to_extract, parsed, dateVars, pageVars, docVars, jobVars, crudVars>>

\* upload_and_extract_passport (main.py:280-327) by user u: the job id is
\* new, the job is stored and its task scheduled
UploadAndExtract(u, destination) ==
    /\ \E j \in JobIds :
        /\ task[j] = NoTask
        /\ NoOtherRunning(j)
        /\ \A k \in JobIds : k < j => task[k] # NoTask
        /\ job_dicts' = [job_dicts EXCEPT ![j] =
                            [id |-> j, user_id |-> u, status |-> "processing",
                             finished_at |-> None, successes |-> <<>>, failures |-> <<>>]]
        /\ OCR_JOBS' = OCR_JOBS \cup {j}
        /\ task' = [task EXCEPT ![j] =
                        [pc |-> "scheduled", user_id |-> u, destination |-> destination,
                         extraction_results |-> <<>>, next |-> 1,
                         successes |-> <<>>, failures |-> <<>>]]
    /\ UNCHANGED <<passports, users>>
    /\ TaskFrame

\* main.py:56-61
TaskStart(j) ==
    /\ task[j].pc = "scheduled"
    /\ NoOtherRunning(j)
    /\ task' = [task EXCEPT ![j].pc = IF j \in OCR_JOBS THEN "extracting" ELSE "done"]
    /\ UNCHANGED <<job_dicts, OCR_JOBS, passports, users>>
    /\ TaskFrame

\* main.py:63-78: the extraction returns its results, or raises
TaskExtracted(j) ==
    /\ task[j].pc = "extracting"
    /\ NoOtherRunning(j)
    /\ \E r \in ExtractionOutcomes[now_year] :
             IF r.raised
             THEN /\ job_dicts' = [job_dicts EXCEPT
                        ![j].status = "failed",
                        ![j].finished_at = Some("now"),
                        ![j].failures = <<[page_number |-> 1,
                                           detail |-> "Traitement global du document échoué"]>>]
                  /\ task' = [task EXCEPT ![j].pc = "done"]
             ELSE /\ task' = [task EXCEPT ![j].pc = "pages",
                                          ![j].extraction_results = r.results]
                  /\ UNCHANGED job_dicts
    /\ UNCHANGED <<OCR_JOBS, passports, users>>
    /\ TaskFrame

\* main.py:81-120 for the next result of the list
TaskPage(j) ==
    /\ task[j].pc = "pages"
    /\ task[j].next <= Len(task[j].extraction_results)
    /\ LET out == HandleResult(task[j].extraction_results[task[j].next], task[j], passports)
       IN  /\ task' = [task EXCEPT ![j].successes = out[1],
                                   ![j].failures = out[2],
                                   ![j].next = @ + 1]
           /\ passports' = out[3]
    /\ UNCHANGED <<job_dicts, OCR_JOBS, users>>
    /\ TaskFrame

\* main.py:124-139 counting the pages that gave a passport instead of every
\* page result
TaskCountPagesOfSuccesses(j) ==
    /\ task[j].pc = "pages"
    /\ task[j].next > Len(task[j].extraction_results)
    /\ LET page_count == Len(task[j].successes)
       IN  users' = IF page_count > 0
                    THEN [users EXCEPT ![task[j].user_id] = @ + page_count]
                    ELSE users
    /\ task' = [task EXCEPT ![j].pc = "finish"]
    /\ UNCHANGED <<job_dicts, OCR_JOBS, passports>>
    /\ TaskFrame

\* main.py:124-139, once the loop has ended
TaskCountPages(j) ==
    /\ task[j].pc = "pages"
    /\ task[j].next > Len(task[j].extraction_results)
    /\ LET page_count == Len(task[j].extraction_results)
       IN  users' = IF page_count > 0
                    THEN [users EXCEPT ![task[j].user_id] = @ + page_count]
                    ELSE users
    /\ task' = [task EXCEPT ![j].pc = "finish"]
    /\ UNCHANGED <<job_dicts, OCR_JOBS, passports>>
    /\ TaskFrame

\* main.py:141-150 writing into the dict of every job instead of its own
TaskFinishEveryJob(j) ==
    /\ task[j].pc = "finish"
    /\ job_dicts' = [k \in JobIds |->
            IF job_dicts[k] = NoTask THEN job_dicts[k]
            ELSE [job_dicts[k] EXCEPT
                    !.status = TaskFinalStatus(task[j].successes, task[j].failures),
                    !.finished_at = Some("now"),
                    !.successes = task[j].successes,
                    !.failures = task[j].failures]]
    /\ task' = [task EXCEPT ![j].pc = "done"]
    /\ UNCHANGED <<OCR_JOBS, passports, users>>
    /\ TaskFrame

\* main.py:141-150
TaskFinish(j) ==
    /\ task[j].pc = "finish"
    /\ job_dicts' = [job_dicts EXCEPT
            ![j].status = TaskFinalStatus(task[j].successes, task[j].failures),
            ![j].finished_at = Some("now"),
            ![j].successes = task[j].successes,
            ![j].failures = task[j].failures]
    /\ task' = [task EXCEPT ![j].pc = "done"]
    /\ UNCHANGED <<OCR_JOBS, passports, users>>
    /\ TaskFrame

\* delete_ocr_job (main.py:367-394) by user u
DeleteOcrJob(j, u) ==
    /\ j \in OCR_JOBS
    /\ \A k \in JobIds : task[k].pc \notin {"pages", "finish"}
    /\ job_dicts[j].user_id = u
    /\ OCR_JOBS' = OCR_JOBS \ {j}
    /\ UNCHANGED <<job_dicts, task, passports, users>>
    /\ TaskFrame

NextTask ==
    \/ \E u \in UserIds, destination \in Destinations : UploadAndExtract(u, destination)
    \/ \E j \in JobIds : TaskStart(j)
    \/ \E j \in JobIds : TaskExtracted(j)
    \/ \E j \in JobIds : TaskPage(j)
    \/ \E j \in JobIds : TaskCountPages(j)
    \/ \E j \in JobIds : TaskFinish(j)
    \/ \E j \in JobIds, u \in UserIds : DeleteOcrJob(j, u)

SpecTask == InitTask /\ [][NextTask]_vars

----------------------------------------------------------------------------
(* crud.py: the persisted OCR jobs *)

MaxOutcomes == 2

NoJob == [status |-> "absent"]

\* The progress values passed to update_ocr_job_progress
ProgressValues == {0, 10, 50, 75, 95, 100}

\* The lists passed to update_ocr_job_complete
SuccessLists ==
    { [i \in 1..n |-> [page_number |-> i, data |-> "passport"]] : n \in 0..MaxOutcomes }
FailureLists ==
    { [i \in 1..n |-> [page_number |-> i, detail |-> "error"]] : n \in 0..MaxOutcomes }

\* crud.py:403
CompleteStatus(successes, failures) ==
    IF ~(Len(successes) = 0 /\ Len(failures) > 0) THEN "complete" ELSE "failed"

InitJobs ==
    /\ ocr_jobs = [j \in JobIds |-> NoJob]
    /\ IdleParse /\ IdleDate /\ IdlePage /\ IdleDoc /\ IdleTask /\ IdleCrud

JobsFrame == UNCHANGED <<parseVars, dateVars, pageVars, docVars, taskVars, crudVars>>

\* crud.create_ocr_job, with a job id not in the table
create_ocr_job(job_id, user_id) ==
    /\ ocr_jobs[job_id] = NoJob
    /\ ocr_jobs' = [ocr_jobs EXCEPT ![job_id] =
            [id |-> job_id, user_id |-> user_id, status |-> "processing", progress |-> 0,
             finished_at |-> None, successes |-> <<>>, failures |-> <<>>]]
    /\ JobsFrame

\* crud.update_ocr_job_progress
update_ocr_job_progress(job_id, progress) ==
    /\ ocr_jobs' = IF ocr_jobs[job_id] # NoJob
                   THEN [ocr_jobs EXCEPT ![job_id].progress = progress]
                   ELSE ocr_jobs
    /\ JobsFrame

\* crud.update_ocr_job_complete
update_ocr_job_complete(job_id, successes, failures) ==
    /\ ocr_jobs' = IF ocr_jobs[job_id] # NoJob
                   THEN [ocr_jobs EXCEPT
                            ![job_id].status = CompleteStatus(successes, failures),
                            ![job_id].progress = 100,
                            ![job_id].finished_at = Some("now"),
                            ![job_id].successes = successes,
                            ![job_id].failures = failures]
                   ELSE ocr_jobs
    /\ JobsFrame

\* crud.update_ocr_job_failed
update_ocr_job_failed(job_id, error_detail) ==
    /\ ocr_jobs' = IF ocr_jobs[job_id] # NoJob
                   THEN [ocr_jobs EXCEPT
                            ![job_id].status = "failed",
                            ![job_id].progress = 100,
                            ![job_id].finished_at = Some("now"),
                            ![job_id].failures = <<[page_number |-> 1, detail |-> error_detail]>>]
                   ELSE ocr_jobs
    /\ JobsFrame

\* crud.delete_ocr_job
delete_ocr_job(job_id) ==
    /\ ocr_jobs' = [ocr_jobs EXCEPT ![job_id] = NoJob]
    /\ JobsFrame

NextJobs ==
    \/ \E j \in JobIds, u \in UserIds : create_ocr_job(j, u)
    \/ \E j \in JobIds, p \in ProgressValues : update_ocr_job_progress(j, p)
    \/ \E j \in JobIds, ss \in SuccessLists, fs \in FailureLists : update_ocr_job_complete(j, ss, fs)
    \/ \E j \in JobIds : update_ocr_job_failed(j, "Traitement global du document échoué")
    \/ \E j \in JobIds : delete_ocr_job(j)

SpecJobs == InitJobs /\ [][NextJobs]_vars

----------------------------------------------------------------------------
(* Calls of _parse_date_from_mrz on its own *)

\* Six-character date strings: years on both sides of the century windows
\* of NowYears, months and days in and out of range
YearSamples  == {"00", "24", "34", "35", "36", "37", "39", "40", "41", "42", "90", "99"}
MonthSamples == {"00", "01", "02", "04", "12", "13"}
DaySamples   == {"00", "01", "28", "29", "30", "31", "32"}

\* Strings that are not six digits: empty, short, long, with letters, with
\* fillers inside or around six digits
OddDateStrings ==
    { "", "9", "90010", "9001011", "90O101", "9001<1", "<<<<<<", "9001 1", "ABCDEF",
      "<900101", "900101<", "90<01<01", "<<351231" }

DateStrings ==
    { y \o m \o d : y \in YearSamples, m \in MonthSamples, d \in DaySamples }
        \cup OddDateStrings

InitDate ==
    /\ date_arg \in DateStrings
    /\ now_year \in NowYears
    /\ date_result = NotCalled
    /\ line_to_extract = ""
    /\ parsed = NotCalled
    /\ IdlePage /\ IdleDoc /\ IdleTask /\ IdleJobs /\ IdleCrud

\* date_result = _parse_date_from_mrz(date_arg); the function has no raise
\* that leaves it (lines 48, 60-61)
CallParseDateFromMrz ==
    /\ date_result = NotCalled
    /\ date_result' = [kind |-> "returned", value |-> _parse_date_from_mrz(date_arg, now_year)]
    /\ UNCHANGED <<date_arg, parseVars, pageVars, docVars, taskVars, jobVars, crudVars>>

NextDate == CallParseDateFromMrz

SpecDate == InitDate /\ [][NextDate]_vars

----------------------------------------------------------------------------
(* Calls of _parse_mrz_from_response on its own *)

\* The text recognized on one page: lines above the MRZ, line 1 and line 2,
\* as printed or with spaces inserted and « read for <
HeaderSamples == {"", "REPUBLIQUE FRANCAISE\n", "PASSEPORT « P »\n"}
PageLine1Samples ==
    { "P<FRADUPONT<<JEAN<PAUL<<<<<<",
      "P<FRADUPONT<<JEAN PAUL<<<<<<",
      "P<FRA DUPONT<<JEAN<PAUL<<<< <<",
      "P<FRADUPONT««JEAN<PAUL«««<<<",
      "P«FRADUPONT««JEAN«PAUL««««««",
      " P<FRADUPONT<<JEAN<PAUL<<<<<< " }
PageLine2Samples ==
    { "12AB345674FRA9001011M3001017<<<<<<<<<<<<<<04",
      "12AB34567 4FRA 9001011 M 3001017 <<<<<<<<<<<<<<04",
      "12A B345674FRA9001011M3001017<<<<<<<<<<<<<<04",
      "12AB345674FRA9001011M3001017««««««««««««««04",
      "12AB345674FRA9001011M3001017««««««««<<<<<<04",
      "12AB345674DEU9001011M3001017<<<<<<<<<<<<<<04" }

FullTexts ==
    { h \o l1 \o "\n" \o l2 : h \in HeaderSamples, l1 \in PageLine1Samples, l2 \in PageLine2Samples }

InitPage ==
    /\ vision_response = NotCalled
    /\ page_result = NotCalled
    /\ now_year \in NowYears
    /\ line_to_extract = ""
    /\ parsed = NotCalled
    /\ IdleDate /\ IdleDoc /\ IdleTask /\ IdleJobs /\ IdleCrud

\* page_result = _parse_mrz_from_response(response, page_num=1) for the
\* response that carries one of the page texts
CallParseMrzFromResponse ==
    /\ page_result = NotCalled
    /\ \E full_text \in FullTexts :
          LET response == [page_number |-> 1, error_message |-> "",
                           full_text |-> full_text, confidences |-> <<99, 97, 98>>]
          IN  /\ vision_response' = response
              /\ page_result' = _parse_mrz_from_response(response, 1, now_year)
    /\ UNCHANGED <<parseVars, dateVars, docVars, taskVars, jobVars, crudVars>>

NextPage == CallParseMrzFromResponse

SpecPage == InitPage /\ [][NextPage]_vars

----------------------------------------------------------------------------
(* Calls of _parse_passport_text on its own *)

\* Texts of one page: what precedes line 2 of the MRZ, then the fields of
\* line 2 in order, each drawn from well-formed and damaged samples.
Line1Samples ==
    { "",
      "P<FRADUPONT<<JEAN<PAUL<<<<<<",
      "P<FRAMARTIN<<<ANNE<<",
      "P<DEUDUPONT<<JEAN<<",
      "P<FRADUPONT<<",
      "P «FRA DU PONT««MARIE «",
      "P<FRADE<LA<TOUR<<ANNE<<MARIE<<<<",
      "P<FRADUPONT<<JEAN<<<PAUL<<<<",
      "P<FRA<<<<" }
NumberSamples ==
    {"12AB34567", "121145678", "111111111", "1A1B1C1D1", "12AB3456<", "12ab34567", "<<<<<<<<<"}
NatSamples    == {"FRA", "F RA", "DEU"}
BirthSamples  == {"900101", "000229", "900231", "9001<1", "9O0101"}
SexSamples    == {"M", "<", "X"}
ExpirySamples == {"300101", "301301", "3001 01"}
Line2Tail     == "<<<<<<<<<<<<<<04"

PageTexts ==
    { l1 \o num \o "4" \o nat \o birth \o "1" \o sex \o expiry \o "7" \o Line2Tail :
        l1 \in Line1Samples, num \in NumberSamples, nat \in NatSamples,
        birth \in BirthSamples, sex \in SexSamples, expiry \in ExpirySamples }

InitParse ==
    /\ line_to_extract = ""
    /\ now_year \in NowYears
    /\ parsed = NotCalled
    /\ IdleDate /\ IdlePage /\ IdleDoc /\ IdleTask /\ IdleJobs /\ IdleCrud

\* parsed = _parse_passport_text(line_to_extract), for one of the page texts
CallParsePassportText ==
    /\ parsed = NotCalled
    /\ \E t \in PageTexts :
          /\ line_to_extract' = t
          /\ parsed' = _parse_passport_text(t, now_year)
    /\ UNCHANGED <<now_year, dateVars, pageVars, docVars, taskVars, jobVars, crudVars>>

NextParse == CallParsePassportText

SpecParse == InitParse /\ [][NextParse]_vars

----------------------------------------------------------------------------
(* Claims about _parse_passport_text *)

RequiredFields ==
    {"last_name", "first_name", "passport_number", "nationality",
     "birth_date", "expiration_date"}

\* an Optional[str] that is neither None nor ''
Populated(v) == v.some /\ v.val # ""

\* The line-2 anchor as the claims word it: 9 alphanumeric-or-filler, 1
\* digit-or-filler, the nationality code, 6 digit-or-filler, 1 digit-or-filler,
\* one of M/F/filler, 6 digit-or-filler, 1 digit-or-filler (28 characters).
\* Alphanumeric is read as the MRZ alphabet, upper-case letters and digits.
AnchorNationality == "FRA"
AnchorAlnumOrFiller == Upper \cup Digit \cup {"<"}
AnchorDigitOrFiller == Digit \cup {"<"}
AllIn(w, set) == \A k \in 1..Len(w) : Ch(w, k) \in set
IsAnchor(w) ==
    /\ Len(w) = 28
    /\ AllIn(SubSeq(w, 1, 9), AnchorAlnumOrFiller)
    /\ AllIn(SubSeq(w, 10, 10), AnchorDigitOrFiller)
    /\ SubSeq(w, 11, 13) = AnchorNationality
    /\ AllIn(SubSeq(w, 14, 19), AnchorDigitOrFiller)
    /\ AllIn(SubSeq(w, 20, 20), AnchorDigitOrFiller)
    /\ AllIn(SubSeq(w, 21, 21), {"M", "F", "<"})
    /\ AllIn(SubSeq(w, 22, 27), AnchorDigitOrFiller)
    /\ AllIn(SubSeq(w, 28, 28), AnchorDigitOrFiller)
\* the text with its spaces removed and every « written as <
RECURSIVE SpacelessFillerText(_)
SpacelessFillerText(t) ==
    IF t = "" THEN ""
    ELSE LET c == Ch(t, 1)
         IN  (CASE c = " " -> "" [] c = "«" -> "<" [] OTHER -> c)
                \o SpacelessFillerText(Tail(t))
ContainsAnchor(t) ==
    LET n == SpacelessFillerText(t)
    IN  \E a \in 1..Len(n) : a + 27 <= Len(n) /\ IsAnchor(SubSeq(n, a, a + 27))

\* C1: whenever _parse_passport_text returns a result, all six of last_name,
\* first_name, passport_number, nationality, birth_date and expiration_date
\* are populated; it never returns partial data.
C1_ReturnedDataIsComplete ==
    parsed.kind = "data" => \A f \in RequiredFields : Populated(parsed[f])

\* C2: for every text whose normalized form contains no substring matching
\* the line-2 anchor, extraction fails with the not-found error and returns
\* no fields.
C2_NoAnchorFailsNotFound ==
    (parsed # NotCalled /\ ~ContainsAnchor(line_to_extract))
        => (parsed.kind = "ValueError" /\ DOMAIN parsed = {"kind", "msg"})

\* a call was made on a text without the anchor
C2_Witness ==
    /\ parsed # NotCalled
    /\ ~ContainsAnchor(line_to_extract)
    /\ parsed.kind = "ValueError"

\* The anchor matches, and the text before it holds no nationality token or
\* one of the two date substrings does not decode to a date.
FieldUnderivable(t, now) ==
    LET n == SpacelessFillerText(t)
        starts == {a \in 1..Len(n) : a + 27 <= Len(n) /\ IsAnchor(SubSeq(n, a, a + 27))}
    IN  /\ starts # {}
        /\ LET a == CHOOSE x \in starts : \A y \in starts : x <= y
               w == SubSeq(n, a, a + 27)
           IN  \/ StrFind(SubSeq(n, 1, a - 1), AnchorNationality) = -1
               \/ _parse_date_from_mrz(SubSeq(w, 14, 19), now) = None
               \/ _parse_date_from_mrz(SubSeq(w, 22, 27), now) = None

\* C3: when the anchor matches but a required field cannot be derived,
\* extraction fails with an MrzIncomplete error naming the missing fields
\* instead of returning a result.
C3_UnderivableFailsIncomplete ==
    (parsed # NotCalled /\ FieldUnderivable(line_to_extract, now_year))
        => (parsed.kind = "MrzIncomplete" /\ parsed.kind # "data")

----------------------------------------------------------------------------
(* Claims about extract_data_page_by_page *)

PageNumbers(results) == {results[i].page_number : i \in 1..Len(results)}

\* C6: for a document of N pages whose output files were listed, exactly N
\* page results are returned, one per page: whatever fails while one page is
\* handled becomes that page's error result, and no page is dropped.
C6_OneResultPerPage ==
    (ex_pc = "returned" /\ json_blobs # <<>>) =>
        /\ Len(all_results) = doc.n_pages
        /\ doc.has_context => PageNumbers(all_results) = 1..doc.n_pages

\* C7: the page results returned are in strictly increasing order of their
\* 1-based page numbers, which are pairwise distinct.
C7_PageNumbersIncrease ==
    ex_pc = "returned" =>
        /\ \A i \in 1..Len(all_results) : all_results[i].page_number >= 1
        /\ \A i, j \in 1..Len(all_results) :
               i < j => all_results[i].page_number < all_results[j].page_number

----------------------------------------------------------------------------
(* Claims about the OCR jobs *)

\* The rule of finalization: failed exactly when there is no success and at
\* least one failure
FinalizeRule(successes, failures) ==
    IF Len(successes) = 0 /\ Len(failures) >= 1 THEN "failed" ELSE "complete"

Terminal(status) == status \in {"complete", "failed"}

\* C4: a job finalized from its page outcomes by the background task is
\* 'failed' if and only if it has zero successes and at least one failure,
\* and 'complete' in every other case.
C4_TaskStatusFollowsOutcomes ==
    \A j \in JobIds :
        (task[j].pc = "done" /\ Terminal(job_dicts[j].status)) =>
            job_dicts[j].status = FinalizeRule(job_dicts[j].successes, job_dicts[j].failures)

\* C5: once the status of a job is 'complete' or 'failed', no operation
\* (progress update, complete, failed) changes its status, progress,
\* successes or failures.
C5_TerminalJobIsFrozen ==
    [][\A j \in JobIds :
          (Terminal(ocr_jobs[j].status) /\ ocr_jobs'[j] # NoJob) =>
              /\ ocr_jobs'[j].status = ocr_jobs[j].status
              /\ ocr_jobs'[j].progress = ocr_jobs[j].progress
              /\ ocr_jobs'[j].successes = ocr_jobs[j].successes
              /\ ocr_jobs'[j].failures = ocr_jobs[j].failures]_vars

\* C8: across any sequence of create, progress, complete and failed
\* operations on one job, its stored progress never decreases.
C8_ProgressNeverDecreases ==
    [][\A j \in JobIds :
          (ocr_jobs[j] # NoJob /\ ocr_jobs'[j] # NoJob) =>
              ocr_jobs'[j].progress >= ocr_jobs[j].progress]_vars

\* C9: while the status of a job is 'processing' its progress stays within
\* 0..95; 100 is reached only by finalization.
C9_ProcessingProgressAtMost95 ==
    \A j \in JobIds :
        ocr_jobs[j].status = "processing" => ocr_jobs[j].progress \in 0..95

\* C10: the status of a job stays 'processing' until every page result has
\* been handled; the terminal status is written once, after the last page,
\* and is computed from the page outcomes the task has collected.
C10_StatusDecidedOnceFromAllPages ==
    [][\A j \in JobIds :
          /\ (task'[j] # NoTask /\ Terminal(job_dicts'[j].status)) =>
                task'[j].next > Len(task'[j].extraction_results)
          /\ (task[j] # NoTask /\ Terminal(job_dicts[j].status)) =>
                job_dicts'[j].status = job_dicts[j].status
          /\ (task[j] # NoTask /\ job_dicts[j].status = "processing"
                /\ Terminal(job_dicts'[j].status)) =>
                job_dicts'[j].status =
                    FinalizeRule(task'[j].successes, task'[j].failures)]_vars

----------------------------------------------------------------------------
(* Claims about _parse_date_from_mrz *)

\* The argument is six digits
SixDigits(t) == Len(t) = 6 /\ \A i \in 1..6 : Ch(t, i) \in Digit

\* The number written by the two digits of t from position i
TwoDigits(t, i) == 10 * DigitVal(Ch(t, i)) + DigitVal(Ch(t, i + 1))

\* The century policy of the claim: 19YY when YY exceeds the current
\* two-digit year by more than ten, 20YY otherwise
ClaimedYear(yy, now) == IF yy > (now % 100) + 10 THEN 1900 + yy ELSE 2000 + yy

\* C11: a two-digit year YY is decoded as 19YY exactly when
\* YY > (current year mod 100) + 10, and as 20YY otherwise.
C11_CenturyThresholdIsTen ==
    (date_result # NotCalled /\ SixDigits(date_arg) /\ date_result.value.some) =>
        SubSeq(date_result.value.val, 1, 4) = Fmt4(ClaimedYear(TwoDigits(date_arg, 1), now_year))

\* YYMMDD is a date of the calendar, in the century the decoder resolves
CalendarDate(t, now) ==
    LET y == ClaimedYear(TwoDigits(t, 1), now)
        m == TwoDigits(t, 3)
        d == TwoDigits(t, 5)
    IN  /\ m \in 1..12
        /\ d >= 1
        /\ d <= (IF m = 2 THEN (IF y % 4 = 0 /\ (y % 100 # 0 \/ y % 400 = 0) THEN 29 ELSE 28)
                 ELSE IF m \in {4, 6, 9, 11} THEN 30 ELSE 31)

----------------------------------------------------------------------------
(* Claims about the passport number and the names *)

\* The raw passport number of a page text: the first group of the leftmost
\* match, without its fillers ("" when there is no match)
RawNumber(t) ==
    LET s == Normalize(t)
        i == PatternSearch(s)
    IN  IF i = 0 THEN "" ELSE StrReplace(MatchGroup(s, i, 1), "<", "")

\* C13: for every 9-character raw passport number, the corrected number is
\* the raw number with each '1' at positions 2-3 (0-based) replaced by 'I'
\* and every character at positions 0-1 and 4-8 unchanged.
C13_OnlyLetterRangeCorrected ==
    (parsed.kind = "data" /\ Len(RawNumber(line_to_extract)) = 9) =>
        LET raw == RawNumber(line_to_extract)
        IN  /\ parsed.passport_number.some
            /\ Len(parsed.passport_number.val) = 9
            /\ \A k \in 0..8 :
                  Ch(parsed.passport_number.val, k + 1) =
                      IF k \in {2, 3} /\ Ch(raw, k + 1) = "1" THEN "I" ELSE Ch(raw, k + 1)

\* the example of the claim: '121145678' becomes '12II45678'
C13_Witness ==
    /\ parsed.kind = "data"
    /\ RawNumber(line_to_extract) = "121145678"
    /\ parsed.passport_number = Some("12II45678")

----------------------------------------------------------------------------
(* Claims about the pages of a job *)

\* A passport number: nine letters or digits
IsPassportNumber(n) == Len(n) = 9 /\ \A k \in 1..9 : Ch(n, k) \in Upper \cup Digit

\* C14: a page whose number group has fewer than 9 characters after filler
\* removal yields no passport-number value, so no success of a job carries
\* anything but a nine-character passport number.
C14_ShortNumberIsNoSuccess ==
    \A j \in JobIds :
        task[j] # NoTask =>
            \A i \in 1..Len(task[j].successes) :
                IsPassportNumber(task[j].successes[i].data.passport_number)

\* The text of an optional string, "" when it is unset
TextOf(v) == IF v.some THEN v.val ELSE ""

\* Python's str.strip, for spaces
RECURSIVE Trim(_)
Trim(t) ==
    IF t = "" THEN ""
    ELSE IF Ch(t, 1) = " " THEN Trim(Tail(t))
    ELSE IF Ch(t, Len(t)) = " " THEN Trim(SubSeq(t, 1, Len(t) - 1))
    ELSE t

FillersToSpaces(t) == StrReplace(t, "<", " ")

\* The name block of a page text as the claim describes it: what follows
\* the first nationality token in the text before the matched span
NameBlock(t) ==
    LET s == Normalize(t)
        i == PatternSearch(s)
        before == SubSeq(s, 1, i - 1)
        tokens == {k \in 1..(Len(before) - 2) : SubSeq(before, k, k + 2) = "FRA"}
    IN  IF tokens = {} THEN ""
        ELSE SubSeq(before, (CHOOSE k \in tokens : \A m \in tokens : k <= m) + 3, Len(before))

\* C15: names come from the text before the matched line-2 span only; the
\* name block starts right after the nationality token; split on '<<',
\* segment 0 with fillers turned into spaces and trimmed is the surname, the
\* later segments joined with single spaces are the given names.
C15_NamesFromBlockBeforeAnchor ==
    parsed.kind = "data" =>
        LET segments == StrSplit(NameBlock(line_to_extract), "<<")
        IN  /\ TextOf(parsed.last_name) = Trim(FillersToSpaces(segments[1]))
            /\ TextOf(parsed.first_name) = Trim(FillersToSpaces(StrJoin(Tail(segments), " ")))

C15_Witness ==
    /\ parsed.kind = "data"
    /\ NameBlock(line_to_extract) = "DE<LA<TOUR<<ANNE<<MARIE<<<<"
    /\ parsed.last_name = Some("DE LA TOUR")
    /\ parsed.first_name = Some("ANNE MARIE")

\* A space-normalized name: no space at either end, no two spaces in a row,
\* no filler
SpaceNormalized(n) ==
    /\ n = "" \/ (Ch(n, 1) # " " /\ Ch(n, Len(n)) # " ")
    /\ \A k \in 1..(Len(n) - 1) : ~(Ch(n, k) = " " /\ Ch(n, k + 1) = " ")
    /\ \A k \in 1..Len(n) : Ch(n, k) # "<"

\* C16: every last_name and first_name returned by the extractor is
\* space-normalized, also for name blocks with runs of three or more
\* fillers between name parts.
C16_NamesAreSpaceNormalized ==
    parsed.kind = "data" =>
        /\ parsed.last_name.some => SpaceNormalized(parsed.last_name.val)
        /\ parsed.first_name.some => SpaceNormalized(parsed.first_name.val)

----------------------------------------------------------------------------
(* Claims about _parse_mrz_from_response *)

\* A page text without its spaces and with < written for «: a text that
\* differs from it by spaces and « only
WithoutSpacesAndGuillemets(t) == StrReplace(StrReplace(t, " ", ""), "«", "<")

\* C17: two page texts that differ only by spaces and by « written for <
\* give the same page result; so each text gives the result of the text
\* with its spaces removed and its « written <.
C17_SpacesAndGuillemetsIgnored ==
    page_result # NotCalled =>
        page_result =
            _parse_mrz_from_response(
                [vision_response EXCEPT
                    !.full_text = WithoutSpacesAndGuillemets(vision_response.full_text)],
                1, now_year)

----------------------------------------------------------------------------
(* Claims about concurrent jobs *)

\* C18: with several jobs running concurrently, the record of a job
\* (status, finished_at, successes, failures) is written only by that job's
\* own background task: no step of the task of job b changes the record of
\* job a, and a stored record changes only in a step of its own task.
C18_RecordWrittenByOwnTaskOnly ==
    [][\A a \in JobIds :
          /\ \A b \in JobIds \ {a} : task'[b] # task[b] => job_dicts'[a] = job_dicts[a]
          /\ (job_dicts[a] # NoTask /\ job_dicts'[a] # job_dicts[a]) =>
                (task[a].pc \in {"extracting", "finish"} /\ task'[a].pc = "done")]_vars

\* one job has been finalized with a success while the task of the other is
\* still extracting, its record untouched
C18_Witness ==
    /\ task[1].pc = "done"
    /\ job_dicts[1].status = "complete"
    /\ Len(job_dicts[1].successes) >= 1
    /\ task[2].pc = "extracting"
    /\ job_dicts[2].status = "processing"
    /\ job_dicts[2].successes = <<>>
    /\ job_dicts[2].failures = <<>>

\* Job j has been cancelled: removed from the job store while processing
Cancelled(j) ==
    /\ task[j] # NoTask
    /\ j \notin OCR_JOBS
    /\ job_dicts[j].status = "processing"

\* C19: once a job is cancelled, its in-flight work is abandoned: its task
\* records no further page result and creates no further passport.
C19_CancelledJobIsAbandoned ==
    [][\A j \in JobIds :
          (Cancelled(j) /\ task'[j] # task[j]) =>
              /\ task'[j].successes = task[j].successes
              /\ task'[j].failures = task[j].failures
              /\ passports' = passports]_vars

\* C20: within one job the pages are handled strictly one after another in
\* page order: the page whose result is recorded by a step is the page that
\* follows the pages already recorded, and one page is recorded per step.
C20_PagesHandledInPageOrder ==
    [][(ex_pc = "blob" /\ all_results' # all_results) =>
          /\ Len(all_results') = Len(all_results) + 1
          /\ json_blobs[blob_i].page = Len(all_results) + 1]_vars

----------------------------------------------------------------------------
(* Claims about the page count of a user *)

\* The jobs of user u whose task has passed the counting of main.py:124-139
\* or has returned before it
CountedJobs(u) ==
    {j \in JobIds : task[j].pc \in {"finish", "done"} /\ task[j].user_id = u}

RECURSIVE PageResultsOf(_)
\* The number of page results the extraction returned to the jobs of S (none
\* to a job whose extraction raised)
PageResultsOf(S) ==
    IF S = {} THEN 0
    ELSE LET j == CHOOSE k \in S : TRUE
         IN  Len(task[j].extraction_results) + PageResultsOf(S \ {j})

----------------------------------------------------------------------------
(* Claims about the lists of a completed job *)

\* The number of entries of the list q that carry page number p
EntriesOfPage(q, p) == Cardinality({k \in 1..Len(q) : q[k].page_number = p})

\* The task of job j has completed the job: it has written the lists of
\* main.py:144-145
CompletedByTask(j) ==
    /\ task[j] # NoTask
    /\ task[j].pc = "done"
    /\ job_dicts[j].status = "complete"

\* C22: when a job completes through the background task, every page result
\* returned by the extraction appears in exactly one of the job's successes
\* and failures, with its page number: for every page number the two lists
\* hold together as many entries as the extraction returned results, and
\* len(successes) + len(failures) is the number of page results.
C22_EveryPageResultInOneList ==
    \A j \in JobIds :
        CompletedByTask(j) =>
            /\ Len(job_dicts[j].successes) + Len(job_dicts[j].failures)
                  = Len(task[j].extraction_results)
            /\ \A p \in 0..TaskMaxPages :
                  EntriesOfPage(job_dicts[j].successes, p) + EntriesOfPage(job_dicts[j].failures, p)
                      = EntriesOfPage(task[j].extraction_results, p)
            /\ \A k \in 1..Len(task[j].extraction_results) :
                  task[j].extraction_results[k].page_number \in 0..TaskMaxPages

\* a job of two pages has completed with one page in each list, the failure
\* being a page whose data did not validate
C22_Witness ==
    \E j \in JobIds :
        /\ CompletedByTask(j)
        /\ Len(task[j].extraction_results) = 2
        /\ Len(job_dicts[j].successes) = 1
        /\ Len(job_dicts[j].failures) = 1
        /\ \E k \in 1..2 : /\ "data" \in DOMAIN task[j].extraction_results[k]
                           /\ job_dicts[j].failures[1].page_number
                                = task[j].extraction_results[k].page_number

----------------------------------------------------------------------------
(* Claims about the passport records of a job *)

\* The extraction of a page left a required field unset or unresolved: the
\* page has no data, a field is unset or empty, or the number is not a
\* passport number
Unresolved(result) ==
    \/ "data" \notin DOMAIN result
    \/ \E f \in RequiredFields : ~result.data[f].some \/ result.data[f].val = ""
    \/ ~IsPassportNumber(TextOf(result.data.passport_number))

\* A complete passport record
CompleteRecord(row) ==
    /\ \A f \in RequiredFields : row[f] # ""
    /\ IsPassportNumber(row.passport_number)

\* C23: every passport record created by an OCR job has non-empty
\* first_name, last_name, passport_number and nationality, set birth_date
\* and expiration_date and a real 9-character passport number; a page whose
\* extraction left one of these unset or unresolved adds a failure and
\* creates no record.
C23_OnlyCompleteRecordsCreated ==
    [][\A j \in JobIds :
          (task[j].pc = "pages" /\ task'[j].pc = "pages" /\ task'[j].next = task[j].next + 1) =>
              LET result == task[j].extraction_results[task[j].next]
              IN  /\ Unresolved(result) =>
                        /\ passports' = passports
                        /\ Len(task'[j].failures) = Len(task[j].failures) + 1
                  /\ passports' # passports =>
                        CompleteRecord(passports'[Len(passports')])]_vars

----------------------------------------------------------------------------
(* register_user (main.py:208-224) and crud.create_user *)

\* The routes of this part are plain functions: the server runs each call in
\* a thread of its own, with a database session of its own, so that between
\* two statements of one call the statements of another may run.  A step is
\* one statement (one query, or one commit with the changes it flushes).

MaxRequests == 2
RequestIds == 1..MaxRequests

NoRequest == [pc |-> "idle"]

\* The rows of table t whose column has the value: query(...).filter(column == value)
RowsWhere(t, column, value) == {k \in 1..Len(t) : t[k][column] = value}

\* The sequence t without the rows whose position is in S
RECURSIVE WithoutRows(_, _)
WithoutRows(t, S) ==
    IF t = <<>> THEN <<>>
    ELSE LET rest == WithoutRows(SubSeq(t, 1, Len(t) - 1), S)
         IN  IF Len(t) \in S THEN rest ELSE Append(rest, t[Len(t)])

\* A fresh primary key for table t
NextId(t) == IF t = <<>> THEN 1
             ELSE 1 + (CHOOSE m \in {t[k].id : k \in 1..Len(t)} :
                           \A k \in 1..Len(t) : t[k].id <= m)

RegTokens == {"t0", "t1", "t2"}
RegEmails == {"a@x.fr", "b@x.fr"}
RegUserNames == {"u1", "u2"}

\* The invitations at the start: one for a@x.fr, used or not, expired or
\* not, and possibly one for b@x.fr
RegInvitations ==
    { <<[id |-> 1, email |-> "a@x.fr", token |-> "t1", is_used |-> u, expired |-> e]>> \o more :
        u \in BOOLEAN, e \in BOOLEAN,
        more \in {<<>>, <<[id |-> 2, email |-> "b@x.fr", token |-> "t2",
                           is_used |-> FALSE, expired |-> FALSE]>>} }

\* The users at the start: none, or one who holds b@x.fr and u1
RegUsers == {<<>>, <<[id |-> 1, email |-> "b@x.fr", user_name |-> "u1"]>>}

InitRegister ==
    /\ \E i \in RegInvitations, u \in RegUsers :
          tables = [invitations |-> i, users |-> u]
    /\ requests = [r \in RequestIds |-> NoRequest]
    /\ IdleParse /\ IdleDate /\ IdlePage /\ IdleDoc /\ IdleTask /\ IdleJobs

CrudFrame == UNCHANGED <<parseVars, dateVars, pageVars, docVars, taskVars, jobVars>>

\* The end of a call with an HTTP status
Respond(r, status) == [requests EXCEPT ![r].pc = "done", ![r].response = status]

\* main.py:210-214: the invitation of the token, and the checks on it
RegisterLookup(r, token, email, user_name) ==
    /\ requests[r] = NoRequest
    /\ LET found == RowsWhere(tables.invitations, "token", token)
           call == [pc |-> "check_email", token |-> token, email |-> email,
                    user_name |-> user_name, invitation |-> 0,
                    response |-> 0, created |-> FALSE]
       IN  requests' = [requests EXCEPT ![r] =
              IF found = {} THEN [call EXCEPT !.pc = "done", !.response = 400]
              ELSE LET invitation == tables.invitations[CHOOSE k \in found : TRUE]
                   IN  IF invitation.is_used \/ invitation.expired \/ invitation.email # email
                       THEN [call EXCEPT !.pc = "done", !.response = 400]
                       ELSE [call EXCEPT !.invitation = invitation.id]]
    /\ UNCHANGED tables
    /\ CrudFrame

\* main.py:215-217
RegisterCheckEmail(r) ==
    /\ requests[r].pc = "check_email"
    /\ requests' =
          IF RowsWhere(tables.users, "email", requests[r].email) # {}
          THEN Respond(r, 400)
          ELSE [requests EXCEPT ![r].pc = "check_username"]
    /\ UNCHANGED tables
    /\ CrudFrame

\* main.py:218-220
RegisterCheckUsername(r) ==
    /\ requests[r].pc = "check_username"
    /\ requests' =
          IF RowsWhere(tables.users, "user_name", requests[r].user_name) # {}
          THEN Respond(r, 400)
          ELSE [requests EXCEPT ![r].pc = "create_user"]
    /\ UNCHANGED tables
    /\ CrudFrame

\* main.py:221 with a users table that has no unique columns
RegisterCreateUserNoUnique(r) ==
    /\ requests[r].pc = "create_user"
    /\ tables' = [tables EXCEPT !.users =
                      Append(@, [id |-> NextId(@), email |-> requests[r].email,
                                 user_name |-> requests[r].user_name])]
    /\ requests' = [requests EXCEPT ![r].pc = "delete_invitation", ![r].created = TRUE]
    /\ CrudFrame

\* main.py:221, crud.create_user without a token (crud.py:44-54): the commit
\* inserts the user, or fails on the unique email or user_name of
\* models.py:19-21
RegisterCreateUser(r) ==
    /\ requests[r].pc = "create_user"
    /\ IF RowsWhere(tables.users, "email", requests[r].email)
             \cup RowsWhere(tables.users, "user_name", requests[r].user_name) # {}
       THEN /\ requests' = Respond(r, 500)
            /\ UNCHANGED tables
       ELSE /\ tables' = [tables EXCEPT !.users =
                             Append(@, [id |-> NextId(@), email |-> requests[r].email,
                                        user_name |-> requests[r].user_name])]
            /\ requests' = [requests EXCEPT ![r].pc = "delete_invitation", ![r].created = TRUE]
    /\ CrudFrame

\* main.py:222-224
RegisterDeleteInvitation(r) ==
    /\ requests[r].pc = "delete_invitation"
    /\ LET mine == RowsWhere(tables.invitations, "id", requests[r].invitation)
       IN  /\ tables' = [tables EXCEPT !.invitations = WithoutRows(@, mine)]
           /\ requests' = Respond(r, IF mine # {} THEN 200 ELSE 500)
    /\ CrudFrame

NextRegister ==
    \/ \E r \in RequestIds, token \in RegTokens, email \in RegEmails, user_name \in RegUserNames :
          RegisterLookup(r, token, email, user_name)
    \/ \E r \in RequestIds : RegisterCheckEmail(r)
    \/ \E r \in RequestIds : RegisterCheckUsername(r)
    \/ \E r \in RequestIds : RegisterCreateUser(r)
    \/ \E r \in RequestIds : RegisterDeleteInvitation(r)

SpecRegister == InitRegister /\ [][NextRegister]_vars

----------------------------------------------------------------------------
(* Claims about register_user *)

\* The calls with token t that have created a user
CreatedWith(t) ==
    {r \in RequestIds : requests[r] # NoRequest /\ requests[r].token = t /\ requests[r].created}

\* A step in which a call is refused with status 400
Refused(r) ==
    /\ requests'[r] # requests[r]
    /\ requests'[r].pc = "done"
    /\ requests'[r].response = 400

\* C24: an invitation token registers at most one user under any
\* interleaving of register_user calls with the same token, and a call with
\* a missing, used or expired token or with another email than the
\* invitation's is refused without creating a user or changing the
\* invitations.
C24_TokenRegistersAtMostOneUser ==
    /\ [](\A t \in RegTokens : Cardinality(CreatedWith(t)) <= 1)
    /\ [][\A r \in RequestIds :
             (requests[r] = NoRequest /\ requests'[r] # NoRequest
                /\ LET found == RowsWhere(tables.invitations, "token", requests'[r].token)
                   IN  \/ found = {}
                       \/ \E k \in found :
                             \/ tables.invitations[k].is_used
                             \/ tables.invitations[k].expired
                             \/ tables.invitations[k].email # requests'[r].email)
             => (Refused(r) /\ tables' = tables)]_vars

\* two calls with the token t1 were past every check at the same time; one
\* has created the user and the other has failed
C24_Witness ==
    /\ requests[1] # NoRequest /\ requests[2] # NoRequest
    /\ requests[1].token = "t1" /\ requests[2].token = "t1"
    /\ requests[1].created /\ requests[1].pc = "delete_invitation"
    /\ requests[2].pc = "done" /\ requests[2].response = 500
    /\ Len(tables.users) = 1

----------------------------------------------------------------------------
(* crud.create_user_passport and update_passport, called by the routes *)
(* POST /passports/ and PUT /passports/{passport_id}                     *)

PassportNumbersGiven == {"12AB34567", "98ZZ76543"}

\* The tables at the start: empty, or user 1 holding passport 1 in a voyage
\* to ROME
PassportTables ==
    { [passports |-> <<>>, voyages |-> <<>>, voyage_passport_association |-> {}],
      [passports |-> <<[id |-> 1, owner_id |-> 1, passport_number |-> "12AB34567"]>>,
       voyages   |-> <<[id |-> 1, user_id |-> 1, destination |-> "ROME"]>>,
       voyage_passport_association |-> {<<1, 1>>}] }

InitPassports ==
    /\ tables \in PassportTables
    /\ requests = [r \in RequestIds |-> NoRequest]
    /\ IdleParse /\ IdleDate /\ IdlePage /\ IdleDoc /\ IdleTask /\ IdleJobs

\* The query of crud.py:111-115 and 151-156: the passports of owner_id with
\* this number in a voyage to this destination, other than passport except
AssociatedPassports(t, owner_id, passport_number, destination, except) ==
    {k \in 1..Len(t.passports) :
        /\ t.passports[k].owner_id = owner_id
        /\ t.passports[k].passport_number = passport_number
        /\ t.passports[k].id # except
        /\ \E v \in 1..Len(t.voyages) :
              /\ t.voyages[v].destination = destination
              /\ <<t.voyages[v].id, t.passports[k].id>> \in t.voyage_passport_association}

\* The query of crud.py:130-133 and 169-172: the first voyage of the user to
\* the destination, 0 when there is none
VoyageOf(t, user_id, destination) ==
    LET found == RowsWhere(t.voyages, "user_id", user_id)
                     \cap RowsWhere(t.voyages, "destination", destination)
    IN  IF found = {} THEN 0
        ELSE t.voyages[CHOOSE k \in found : \A m \in found : k <= m].id

\* The call names a destination (crud.py:110, 129, 150, 168)
WantsDestination(call) == call.destination.some /\ call.destination.val # ""

\* The commit of crud.py:135-142 and 173-178: the voyage is inserted when
\* none was found, and the passport is linked to it
LinkToVoyage(t, call, user_id) ==
    LET voyage_id == IF call.voyage = 0 THEN NextId(t.voyages) ELSE call.voyage
    IN  [t EXCEPT
           !.voyages = IF call.voyage = 0
                       THEN Append(@, [id |-> voyage_id, user_id |-> user_id,
                                       destination |-> call.destination.val])
                       ELSE @,
           !.voyage_passport_association = @ \cup {<<voyage_id, call.passport_id>>}]

\* create_user_passport, crud.py:110-121: the conflict check
CreatePassportCheck(r, user_id, passport_number, destination) ==
    /\ requests[r] = NoRequest
    /\ LET call == [pc |-> "insert", op |-> "create", user_id |-> user_id,
                    passport_number |-> passport_number, destination |-> destination,
                    passport_id |-> 0, owner_id |-> user_id, voyage |-> 0, loaded |-> {},
                    response |-> 0]
       IN  requests' = [requests EXCEPT ![r] =
              IF WantsDestination(call)
                 /\ AssociatedPassports(tables, user_id, passport_number, destination.val, 0) # {}
              THEN [call EXCEPT !.pc = "done", !.response = 409]
              ELSE call]
    /\ UNCHANGED tables
    /\ CrudFrame

\* create_user_passport, crud.py:123-127: the passport is inserted
CreatePassportInsert(r) ==
    /\ requests[r].pc = "insert"
    /\ LET id == NextId(tables.passports)
       IN  /\ tables' = [tables EXCEPT !.passports =
                            Append(@, [id |-> id, owner_id |-> requests[r].user_id,
                                       passport_number |-> requests[r].passport_number])]
           /\ requests' = [requests EXCEPT ![r].passport_id = id,
                                           ![r].pc = IF WantsDestination(requests[r])
                                                     THEN "find_voyage" ELSE "done",
                                           ![r].response = IF WantsDestination(requests[r])
                                                           THEN 0 ELSE 200]
    /\ CrudFrame

\* crud.py:129-133 and 168-172: the voyage of the owner to the destination
\* is looked for; update_passport first loads the voyages of the passport
\* to clear them (crud.py:166)
FindVoyage(r) ==
    /\ requests[r].pc = "find_voyage"
    /\ requests' = [requests EXCEPT
          ![r].pc = "link",
          ![r].loaded = IF requests[r].op = "update"
                        THEN {a \in tables.voyage_passport_association :
                                 a[2] = requests[r].passport_id}
                        ELSE {},
          ![r].voyage = IF WantsDestination(requests[r])
                        THEN VoyageOf(tables, requests[r].owner_id, requests[r].destination.val)
                        ELSE 0]
    /\ UNCHANGED tables
    /\ CrudFrame

\* create_user_passport, crud.py:135-143: the commit of the voyage and link
CreatePassportLink(r) ==
    /\ requests[r].pc = "link"
    /\ requests[r].op = "create"
    /\ tables' = LinkToVoyage(tables, requests[r], requests[r].user_id)
    /\ requests' = Respond(r, 200)
    /\ CrudFrame

\* PUT /passports/{passport_id} (main.py:442-449) and crud.py:146-161: the
\* passport is loaded, the caller must own it, and the conflict check
UpdatePassportCheck(r, user_id, passport_id, passport_number, destination) ==
    /\ requests[r] = NoRequest
    /\ LET found == RowsWhere(tables.passports, "id", passport_id)
           call == [pc |-> "find_voyage", op |-> "update", user_id |-> user_id,
                    passport_number |-> passport_number, destination |-> destination,
                    passport_id |-> passport_id, owner_id |-> 0, voyage |-> 0, loaded |-> {},
                    response |-> 0]
       IN  requests' = [requests EXCEPT ![r] =
              IF found = {} THEN [call EXCEPT !.pc = "done", !.response = 404]
              ELSE LET db_passport == tables.passports[CHOOSE k \in found : TRUE]
                   IN  IF db_passport.owner_id # user_id
                       THEN [call EXCEPT !.pc = "done", !.response = 403]
                       ELSE IF WantsDestination(call)
                               /\ AssociatedPassports(tables, db_passport.owner_id, passport_number,
                                                      destination.val, passport_id) # {}
                       THEN [call EXCEPT !.pc = "done", !.response = 409]
                       ELSE [call EXCEPT !.owner_id = db_passport.owner_id]]
    /\ UNCHANGED tables
    /\ CrudFrame

\* update_passport, crud.py:163-180: the commit of the new fields, of the
\* cleared links and of the new link
UpdatePassportCommit(r) ==
    /\ requests[r].pc = "link"
    /\ requests[r].op = "update"
    /\ LET call == requests[r]
           t == [tables EXCEPT
                   !.passports = [k \in 1..Len(@) |->
                                     IF @[k].id = call.passport_id
                                     THEN [@[k] EXCEPT !.passport_number = call.passport_number]
                                     ELSE @[k]],
                   !.voyage_passport_association = @ \ call.loaded]
       IN  tables' = IF WantsDestination(call) THEN LinkToVoyage(t, call, call.owner_id) ELSE t
    /\ requests' = Respond(r, 200)
    /\ CrudFrame

NextPassports ==
    \/ \E r \in RequestIds, u \in UserIds, n \in PassportNumbersGiven, d \in Destinations :
          CreatePassportCheck(r, u, n, d)
    \/ \E r \in RequestIds : CreatePassportInsert(r)
    \/ \E r \in RequestIds : FindVoyage(r)
    \/ \E r \in RequestIds : CreatePassportLink(r)
    \/ \E r \in RequestIds, u \in UserIds, p \in 1..MaxRequests,
          n \in PassportNumbersGiven, d \in Destinations :
          UpdatePassportCheck(r, u, p, n, d)
    \/ \E r \in RequestIds : UpdatePassportCommit(r)

SpecPassports == InitPassports /\ [][NextPassports]_vars

----------------------------------------------------------------------------
(* Claims about create_user_passport and update_passport *)

\* C25: for any interleaving of create_user_passport and update_passport
\* calls, at most one passport of an owner with a given passport_number is
\* associated with a given destination, and a call refused with a 409
\* conflict leaves passports, voyages and associations unchanged.
C25_OnePassportPerNumberAndDestination ==
    /\ [](\A u \in UserIds, n \in PassportNumbersGiven :
             Cardinality(AssociatedPassports(tables, u, n, "ROME", 0)) <= 1)
    /\ [][\A r \in RequestIds :
             (requests'[r] # requests[r] /\ requests'[r].response = 409) => tables' = tables]_vars

----------------------------------------------------------------------------
(* POST /passports/delete-multiple (main.py:462-477) and                  *)
(* crud.delete_multiple_passports                                         *)

\* owner_id NULL, of a passport whose owner gave it up
NoOwner == 0

Roles == {"user", "admin"}

\* The tables at the start: two passports, each owned by a user or by
\* nobody, a voyage of each user, and any links between them
DeleteTables ==
    { [passports |-> <<[id |-> 1, owner_id |-> o1, passport_number |-> "12AB34567"],
                       [id |-> 2, owner_id |-> o2, passport_number |-> "98ZZ76543"]>>,
       voyages   |-> [u \in UserIds |-> [id |-> u, user_id |-> u, destination |-> "ROME"]],
       voyage_passport_association |-> links] :
        o1 \in UserIds \cup {NoOwner}, o2 \in UserIds \cup {NoOwner},
        links \in SUBSET (UserIds \X (1..2)) }

\* The lists of ids a call may carry; 3 is the id of no passport
PassportIdLists == SUBSET (1..3)

InitDelete ==
    /\ tables \in DeleteTables
    /\ requests = [r \in RequestIds |-> NoRequest]
    /\ IdleParse /\ IdleDate /\ IdlePage /\ IdleDoc /\ IdleTask /\ IdleJobs

\* crud.py:336-348 with the voyages left out: the owner if he is not the
\* deleter
OtherRelatedUsersOwnerOnly(t, passport, deleter_user_id) ==
    (IF passport.owner_id # NoOwner THEN {passport.owner_id} ELSE {}) \ {deleter_user_id}

\* crud.py:336-348: the users related to the passport, as its owner or by a
\* voyage that holds it, except the deleter
OtherRelatedUsers(t, passport, deleter_user_id) ==
    LET voyage_user_ids ==
            {t.voyages[v].user_id : v \in {v \in 1..Len(t.voyages) :
                <<t.voyages[v].id, passport.id>> \in t.voyage_passport_association}}
        related_user_ids ==
            voyage_user_ids \cup (IF passport.owner_id # NoOwner THEN {passport.owner_id} ELSE {})
    IN  related_user_ids \ {deleter_user_id}

\* delete_multiple_passports(db, passport_ids, user_id, role) and the
\* response of the route: the changes of the loop are flushed by the one
\* commit of crud.py:366
DeleteMultiplePassports(r, passport_ids, user_id, role) ==
    /\ requests[r] = NoRequest
    /\ LET passports_to_process ==
               {k \in 1..Len(tables.passports) :
                   /\ tables.passports[k].id \in passport_ids
                   /\ role # "admin" => tables.passports[k].owner_id = user_id}
           deleted == {k \in passports_to_process :
                          OtherRelatedUsers(tables, tables.passports[k], user_id) = {}}
           unlinked == passports_to_process \ deleted
           Ids(S) == {tables.passports[k].id : k \in S}
           deleter_voyages ==
               {tables.voyages[v].id : v \in {v \in 1..Len(tables.voyages) :
                                                tables.voyages[v].user_id = user_id}}
           processed_count == Cardinality(passports_to_process)
       IN  /\ tables' = [tables EXCEPT
                 !.passports = WithoutRows(
                     [k \in 1..Len(@) |->
                         IF k \in unlinked /\ @[k].owner_id = user_id
                         THEN [@[k] EXCEPT !.owner_id = NoOwner] ELSE @[k]],
                     deleted),
                 !.voyage_passport_association =
                     {a \in @ : /\ a[2] \notin Ids(deleted)
                                /\ ~(a[2] \in Ids(unlinked) /\ a[1] \in deleter_voyages)}]
           /\ requests' = [requests EXCEPT ![r] =
                 [pc |-> "done", passport_ids |-> passport_ids, user_id |-> user_id,
                  role |-> role, response |-> [deleted_count |-> processed_count]]]
    /\ CrudFrame

NextDelete ==
    \E r \in RequestIds, passport_ids \in PassportIdLists, user_id \in UserIds, role \in Roles :
        DeleteMultiplePassports(r, passport_ids, user_id, role)

SpecDelete == InitDelete /\ [][NextDelete]_vars

----------------------------------------------------------------------------
(* Claims about delete_multiple_passports *)

\* The passport with this id in the tables t, as a set of at most one row
PassportById(t, id) == {t.passports[k] : k \in RowsWhere(t.passports, "id", id)}

\* The voyages that hold the passport with this id
LinksOf(t, id) == {a[1] : a \in {a \in t.voyage_passport_association : a[2] = id}}

\* The voyages of a user
VoyagesOfUser(t, u) == {t.voyages[v].id : v \in RowsWhere(t.voyages, "user_id", u)}

\* The users other than the caller who are related to passport p: its
\* owner, and the users of the voyages that hold it
OthersRelatedTo(t, p, caller) ==
    {u \in UserIds \ {caller} :
        \/ p.owner_id = u
        \/ LinksOf(t, p.id) \cap VoyagesOfUser(t, u) # {}}

\* C26: delete_multiple_passports removes a passport only when it was
\* requested and no user other than the caller is related to it; a passport
\* it keeps loses nothing but the caller's ownership and its links to the
\* caller's voyages; and a non-admin caller leaves the passports owned by
\* anyone else as they were.
C26_DeletesOnlyUnsharedPassports ==
    [][\A r \in RequestIds :
          requests'[r] # requests[r] =>
              LET call == requests'[r]
              IN  /\ tables'.voyages = tables.voyages
                  /\ \A k \in 1..Len(tables.passports) :
                        LET p == tables.passports[k]
                            after == PassportById(tables', p.id)
                        IN  /\ after = {} =>
                                  /\ p.id \in call.passport_ids
                                  /\ OthersRelatedTo(tables, p, call.user_id) = {}
                            /\ after # {} =>
                                  /\ after \subseteq {p, [p EXCEPT !.owner_id = NoOwner]}
                                  /\ p \notin after => p.owner_id = call.user_id
                                  /\ LinksOf(tables', p.id) \subseteq LinksOf(tables, p.id)
                                  /\ LinksOf(tables, p.id) \ LinksOf(tables', p.id)
                                        \subseteq VoyagesOfUser(tables, call.user_id)
                            /\ (call.role # "admin" /\ p.owner_id # call.user_id) =>
                                  /\ after = {p}
                                  /\ LinksOf(tables', p.id) = LinksOf(tables, p.id)]_vars

\* a call has met a passport of the caller that is also in the voyage of
\* another user: the passport is still there, without owner and without its
\* link to the caller's voyage, and the other user's link is kept
C26_Witness ==
    /\ requests[1] # NoRequest
    /\ requests[1].user_id = 1 /\ requests[1].role = "user"
    /\ requests[1].passport_ids = {1, 2}
    /\ requests[2] = NoRequest
    /\ Len(tables.passports) = 1
    /\ tables.passports[1] = [id |-> 1, owner_id |-> NoOwner, passport_number |-> "12AB34567"]
    /\ tables.voyage_passport_association = {<<2, 1>>}

\* C27: the deleted_count returned by the multi-delete endpoint is the
\* number of requested passports that the call has removed from the store,
\* for admin and non-admin callers alike.
C27_DeletedCountIsNumberRemoved ==
    [][\A r \in RequestIds :
          requests'[r] # requests[r] =>
              requests'[r].response.deleted_count =
                  Cardinality({id \in requests'[r].passport_ids :
                                  PassportById(tables, id) # {} /\ PassportById(tables', id) = {}})]_vars

----------------------------------------------------------------------------
(* PUT /users/me (main.py:230-235) and crud.update_user *)

\* A field of the request body: absent, or present with a value (None for
\* a JSON null)
Unset == [set |-> FALSE]
SetTo(v) == [set |-> TRUE, value |-> v]

\* The fields of schemas.UserUpdate that are columns of users
UserColumns == {"first_name", "email", "uploaded_pages_count"}

\* The columns of users declared nullable=False (models.py:19, 26)
NotNullColumns == {"email", "uploaded_pages_count"}

\* The request bodies
UserUpdates ==
    [first_name           : {Unset, SetTo(None), SetTo(Some("Ana"))},
     email                : {Unset, SetTo(Some("n@x.fr"))},
     password             : {Unset, SetTo(Some("pw2"))},
     uploaded_pages_count : {Unset, SetTo(None), SetTo(Some(0)), SetTo(Some(7))}]

\* The caller's row at the start
UserRows ==
    { [id |-> 1, first_name |-> Some("Bea"), email |-> Some("b@x.fr"),
       hashed_password |-> "hash(pw1)", uploaded_pages_count |-> Some(c)] : c \in {0, 5} }

InitUserUpdate ==
    /\ \E row \in UserRows : tables = [users |-> <<row>>]
    /\ requests = [r \in RequestIds |-> NoRequest]
    /\ IdleParse /\ IdleDate /\ IdlePage /\ IdleDoc /\ IdleTask /\ IdleJobs

\* user_update.model_dump(exclude_unset=True) without the password
\* (crud.py:59, 63): the columns the body has set, a field assigned after
\* validation being set too
UpdateData(user_update) == {f \in UserColumns : user_update[f].set}

\* update_user_me: the page count of the body is overwritten with None when
\* it is not None (main.py:233-234), then crud.update_user sets every field
\* of the dump on the row and commits (crud.py:56-68); the commit fails when
\* a NOT NULL column is None
UpdateUserMe(r, user_update) ==
    /\ requests[r] = NoRequest
    /\ LET body == IF user_update.uploaded_pages_count.set
                      /\ user_update.uploaded_pages_count.value # None
                   THEN [user_update EXCEPT !.uploaded_pages_count = SetTo(None)]
                   ELSE user_update
           db_user == tables.users[1]
           hashed == IF body.password.set /\ body.password.value # None
                     THEN [db_user EXCEPT !.hashed_password = "hash(" \o body.password.value.val \o ")"]
                     ELSE db_user
           changed == [f \in DOMAIN hashed |->
                          IF f \in UpdateData(body) THEN body[f].value ELSE hashed[f]]
           integrity_error == \E f \in NotNullColumns : changed[f] = None
       IN  /\ tables' = IF integrity_error THEN tables
                        ELSE [tables EXCEPT !.users[1] = changed]
           /\ requests' = [requests EXCEPT ![r] =
                 [pc |-> "done", user_update |-> user_update,
                  response |-> IF integrity_error THEN 500 ELSE 200]]
    /\ CrudFrame

NextUserUpdate ==
    \E r \in RequestIds, user_update \in UserUpdates : UpdateUserMe(r, user_update)

SpecUserUpdate == InitUserUpdate /\ [][NextUserUpdate]_vars

----------------------------------------------------------------------------
(* Claims about PUT /users/me *)

\* C28: PUT /users/me never changes the caller's uploaded_pages_count,
\* whatever value the request carries, and the other fields supplied in the
\* same request are applied.
C28_PageCountKeptOtherFieldsApplied ==
    [][\A r \in RequestIds :
          requests'[r] # requests[r] =>
              LET user_update == requests'[r].user_update
              IN  /\ tables'.users[1].uploaded_pages_count = tables.users[1].uploaded_pages_count
                  /\ \A f \in {"first_name", "email"} :
                        user_update[f].set => tables'.users[1][f] = user_update[f].value
                  /\ user_update.password.set =>
                        tables'.users[1].hashed_password
                            = "hash(" \o user_update.password.value.val \o ")"]_vars

----------------------------------------------------------------------------
(* Claims about the cleanup of extract_data_page_by_page *)

\* C29: once the clients are initialized, the deletion of the uploaded input
\* object is attempted exactly once on every path out of
\* extract_data_page_by_page (success, unsupported content type, upload
\* failure, OCR failure, parse failure): never before the finally clause,
\* once when the function has returned, every exception raised after the
\* clients were found leads to the finally clause, and the attempt, whether
\* it deletes the object or fails, returns the results as they were.
C29_InputDeletionAttemptedOnce ==
    /\ [](/\ ex_pc = "returned" => input_deleted = 1
          /\ ex_pc # "returned" => input_deleted = 0
          /\ ex_pc = "raised" => ~doc.clients_ok)
    /\ [][ex_pc = "except" => ex_pc' = "finally"]_vars
    /\ [][ex_pc = "finally" => (ex_pc' = "returned" /\ all_results' = all_results)]_vars

\* the function has returned the results of a two-page document after an
\* attempt to delete the input object that has failed: the object is still
\* in the bucket
C29_Witness ==
    /\ ex_pc = "returned"
    /\ input_deleted = 1
    /\ input_stored
    /\ ~ex_raised
    /\ Len(all_results) = 2

====
